---- MODULE Spec2Model ----
(***************************************************************************)
(* Model of the tomt discovery pipeline: the Reddit scraper's              *)
(* classification, the parser's defensive extraction, the SQLite store's   *)
(* upserts and the DiscoveryService cycle (scrape -> enrich -> persist ->  *)
(* resolve -> stats).                                                      *)
(*                                                                         *)
(* Strings the code inspects are sequences of one-character strings, so    *)
(* that lower-casing, substring tests and the song-id normalisation are    *)
(* computed rather than assumed.  Python's None for a string field is the  *)
(* one-element sequence None, which is no character sequence.              *)
(***************************************************************************)
EXTENDS Integers, Sequences, FiniteSets, TLC

\* ------------------------------------------------------------------ bounds
\* number of cycles / passes started in one behaviour (also the clock range)
MaxCycles == 2
\* largest caller-supplied limit
MaxLimit == 2
\* words in a flair text given to _determine_status on its own
MaxWords == 2
\* characters in an artist or a song title given to the song-id rule on its own
MaxNameLen == 2
\* rows of the posts table / of the songs table given to get_stats on its own
MaxRequests == 3
MaxSongs == 2
\* largest discovery_count a Song has before two processes save it
MaxPrior == 2

\* ----------------------------------------------------------------- strings
None == <<"None">>
NoInt == <<>>

UpperLetters == <<"A","B","C","D","E","F","G","H","I","J","K","L","M",
                  "N","O","P","Q","R","S","T","U","V","W","X","Y","Z">>
LowerLetters == <<"a","b","c","d","e","f","g","h","i","j","k","l","m",
                  "n","o","p","q","r","s","t","u","v","w","x","y","z">>
Digits == {"0","1","2","3","4","5","6","7","8","9"}

\* the lower-case letter of each upper-case letter
LowerOf ==
    [c \in {UpperLetters[i] : i \in 1..26} |->
        LowerLetters[CHOOSE i \in 1..26 : UpperLetters[i] = c]]

\* str.lower() on one character
LowerChar(c) == IF c \in DOMAIN LowerOf THEN LowerOf[c] ELSE c

\* str.lower()
Lower(s) == [i \in 1..Len(s) |-> LowerChar(s[i])]

\* the characters str.isalnum() accepts
AlnumChars ==
    {UpperLetters[i] : i \in 1..26} \cup {LowerLetters[i] : i \in 1..26} \cup Digits

\* str.isalnum() on one character
IsAlnum(c) == c \in AlnumChars

\* `sub in s`
Contains(sub, s) ==
    \E i \in 0..(Len(s) - Len(sub)) :
        \A j \in 1..Len(sub) : s[i + j] = sub[j]

\* Python truthiness of an Optional[str]
Truthy(s) == s # None /\ s # <<>>

\* ------------------------------------------------------------ the forum
PostIds == {"t1", "t2", "t3"}

\* self.subreddits, in iteration order
Subreddits == <<"tipofmytongue", "WhatsThisSong">>

\* submission.subreddit.display_name
SubredditOf(t) == IF t = "t1" THEN "WhatsThisSong" ELSE "tipofmytongue"

\* submission.created_utc
CreatedAt(t) == CASE t = "t1" -> 1 [] t = "t2" -> 2 [] t = "t3" -> 3

\* submission.title
TitleOf(t) ==
    CASE t = "t1" -> <<"H","u","m">>
      [] t = "t2" -> <<"[","T","O","M","T","]"," ","[","S","o","n","g","]">>
      [] t = "t3" -> <<"[","T","O","M","T","]","[","M","o","v","i","e","]">>

\* submission.link_flair_text values the forum may show for a thread
FlairSolved == <<"S","o","l","v","e","d">>
FlairOpen == <<"O","p","e","n">>
FlairClosed == <<"C","l","o","s","e","d">>
FlairSong == <<"S","o","n","g">>
Flairs == {None, FlairSolved, FlairOpen, FlairClosed, FlairSong}

\* the flairs thread t shows over its life
FlairsOf(t) ==
    CASE t = "t1" -> {FlairSolved}
      [] t = "t2" -> {FlairSolved, FlairClosed}
      [] t = "t3" -> {None, FlairSolved}

\* ------------------------------------------------------------- classifier
\* (submission.link_flair_text or "").lower()
FlairText(flair) == IF flair = None THEN <<>> ELSE Lower(flair)

\* variant: the "unsolved" rule is tried first
DetermineStatus_unsolvedFirst(flair) ==
    LET f == FlairText(flair) IN
    IF Contains(<<"u","n","s","o","l","v","e","d">>, f)
       \/ Contains(<<"c","l","o","s","e","d">>, f) THEN "unsolved"
    ELSE IF Contains(<<"s","o","l","v","e","d">>, f)
       \/ Contains(<<"a","n","s","w","e","r","e","d">>, f) THEN "solved"
    ELSE IF Contains(<<"o","p","e","n">>, f)
       \/ Contains(<<"s","e","a","r","c","h","i","n","g">>, f) THEN "open"
    ELSE "unknown"

\* variant: the "open" rule is tried before the "solved" rule
DetermineStatus_openFirst(flair) ==
    LET f == FlairText(flair) IN
    IF Contains(<<"o","p","e","n">>, f)
       \/ Contains(<<"s","e","a","r","c","h","i","n","g">>, f) THEN "open"
    ELSE IF Contains(<<"s","o","l","v","e","d">>, f)
       \/ Contains(<<"a","n","s","w","e","r","e","d">>, f) THEN "solved"
    ELSE IF Contains(<<"u","n","s","o","l","v","e","d">>, f)
       \/ Contains(<<"c","l","o","s","e","d">>, f) THEN "unsolved"
    ELSE "unknown"

\* _determine_status
DetermineStatus(flair) ==
    LET f == FlairText(flair) IN
    IF Contains(<<"s","o","l","v","e","d">>, f)
       \/ Contains(<<"a","n","s","w","e","r","e","d">>, f) THEN "solved"
    ELSE IF Contains(<<"o","p","e","n">>, f)
       \/ Contains(<<"s","e","a","r","c","h","i","n","g">>, f) THEN "open"
    ELSE IF Contains(<<"u","n","s","o","l","v","e","d">>, f)
       \/ Contains(<<"c","l","o","s","e","d">>, f) THEN "unsolved"
    ELSE "unknown"

\* s[i..] starts with pre
StartsAt(pre, s, i) ==
    /\ i + Len(pre) - 1 <= Len(s)
    /\ \A j \in 1..Len(pre) : s[i + j - 1] = pre[j]

\* first index >= i of s that is not whitespace (Len(s)+1 when none)
RECURSIVE SkipSpaces(_, _)
SkipSpaces(s, i) ==
    IF i <= Len(s) /\ s[i] = " " THEN SkipSpaces(s, i + 1) ELSE i

\* MUSIC_FLAIR_PATTERNS, searched case-insensitively in the title
MusicWords == {<<"s","o","n","g">>, <<"m","u","s","i","c">>,
               <<"b","a","n","d">>, <<"a","r","t","i","s","t">>}

MatchesMusicPattern(title) ==
    LET t == Lower(title) IN
    \/ \E i \in 1..Len(t) :
          /\ StartsAt(<<"[","t","o","m","t","]">>, t, i)
          /\ \E w \in MusicWords : StartsAt(<<"[">> \o w, t, SkipSpaces(t, i + 6))
    \/ Contains(<<"[","s","o","n","g","]">>, t)
    \/ Contains(<<"[","m","u","s","i","c","]">>, t)

\* variant: only the flair is looked at, never the title
IsMusicPost_flairOnly(sub, title, flair) ==
    LET name == sub IN
    IF name \in {"WhatsThisSong", "NameThatSong"} THEN TRUE
    ELSE IF name = "tipofmytongue" THEN
        \/ Contains(<<"s","o","n","g">>, FlairText(flair))
        \/ Contains(<<"m","u","s","i","c">>, FlairText(flair))
    ELSE TRUE

\* _is_music_post
IsMusicPost(sub, title, flair) ==
    LET name == sub IN
    IF name \in {"WhatsThisSong", "NameThatSong"} THEN TRUE
    ELSE IF name = "tipofmytongue" THEN
        \/ Contains(<<"s","o","n","g">>, FlairText(flair))
        \/ Contains(<<"m","u","s","i","c">>, FlairText(flair))
        \/ MatchesMusicPattern(title)
    ELSE TRUE

\* the two classifier functions tabulated over the forum's threads and flairs
StatusOf == [flair \in Flairs |-> DetermineStatus(flair)]
MusicPosts ==
    {tf \in PostIds \X Flairs : IsMusicPost(SubredditOf(tf[1]), TitleOf(tf[1]), tf[2])}

\* ----------------------------------------------------------------- parser
\* description values the extraction capability may put in its JSON object
D1 == <<"d","1">>

\* how the response text wraps its payload: bare, in ```json ... ``` or in
\* ``` ... ```
Fences == {"none", "json", "plain"}

\* responses of the extraction capability to the description prompt:
\* the call raises, the payload is not JSON, or it is a JSON object whose
\* "description" is missing/null, empty or a text
DescResponses ==
    {[kind |-> "api_error", fence |-> "none", description |-> None],
     [kind |-> "json", fence |-> "none", description |-> None],
     [kind |-> "json", fence |-> "none", description |-> <<>>],
     [kind |-> "json", fence |-> "none", description |-> D1]}
    \cup {[kind |-> "not_json", fence |-> f, description |-> None] : f \in Fences}

\* the responses the capability gives for thread t
DescResponsesOf(t) ==
    IF t = "t1" THEN {r \in DescResponses : r.kind # "not_json"}
    ELSE {r \in DescResponses : r.kind # "json"}

\* extract_description lets everything but a JSONDecodeError out: the call to
\* the capability raising is all that is left
DescriptionRaises(resp) == resp.kind = "api_error"

\* response_text.split(fence)[1].split("```")[0].strip(): what json.loads is
\* given; the fence is gone, the payload is what it was
Unfenced(resp) == [kind |-> resp.kind, description |-> resp.description]

\* variant: the JSONDecodeError leaves the description unset
ExtractDescription_unset(title, resp) ==
    IF Unfenced(resp).kind = "not_json" THEN None ELSE Unfenced(resp).description

\* extract_description: the dict's "description" (the call itself raising is
\* the caller's case "api_error")
ExtractDescription(title, resp) ==
    IF Unfenced(resp).kind = "not_json" THEN title ELSE Unfenced(resp).description

\* enrich_post
EnrichPost(post, title, resp) ==
    [post EXCEPT !.description = ExtractDescription(title, resp)]

\* (artist, song_title, album, year) objects the capability may name
Results ==
    {[artist |-> <<"A","b">>, song_title |-> <<"C">>, album |-> None, year |-> NoInt],
     [artist |-> <<"a","B">>, song_title |-> <<"c">>, album |-> <<"L","P">>, year |-> <<1983>>],
     [artist |-> <<"x">>, song_title |-> <<"y">>, album |-> None, year |-> NoInt]}

\* the answers the replies of thread t support (t1 and t2 are about the same
\* track, written differently)
ResultsOf(t) ==
    CASE t = "t1" -> {r \in Results : r.artist = <<"A","b">>}
      [] t = "t2" -> {r \in Results : r.artist # <<"A","b">>}
      [] t = "t3" -> Results

NoResult == [artist |-> None, song_title |-> None, album |-> None, year |-> NoInt]

\* responses of the extraction capability to the solution prompt
SolutionResponses ==
    {[kind |-> k, result |-> NoResult] :
        k \in {"api_error", "not_json", "found_false", "missing_key"}}
    \cup {[kind |-> "found", result |-> r] : r \in Results}

SolutionResponsesOf(t) ==
    {r \in SolutionResponses : r.kind = "found" => r.result \in ResultsOf(t)}

\* variant: only spaces are replaced
Normalize_spaces(s) == [i \in 1..Len(s) |-> IF s[i] = " " THEN "_" ELSE s[i]]

\* "".join(c if c.isalnum() else "_" for c in song_id)
Normalize(s) == [i \in 1..Len(s) |-> IF IsAlnum(s[i]) THEN s[i] ELSE "_"]

\* f"{result['artist']}_{result['song_title']}".lower(), normalised
SongId(artist, title) == Normalize(Lower(artist \o <<"_">> \o title))

\* SongId tabulated over the answers
SongIdOf == [r \in Results |-> SongId(r.artist, r.song_title)]

NoSong == [id |-> None]

\* Song(...) with the model's defaults
NewSong(result, t) ==
    [id |-> SongIdOf[result],
     title |-> result.song_title,
     artist |-> result.artist,
     album |-> result.album,
     year |-> result.year,
     discovered_at |-> t,
     discovery_count |-> 1,
     original_descriptions |-> <<>>]

\* variant: the capability is called whatever the reply list
SolutionCalls_always(hasComments) == TRUE

\* extract_solution reaches client.messages.create only past `if not comments`
SolutionCalls(hasComments) == hasComments

\* variant: the KeyError of a result without artist / song_title gets out
ExtractSolution_keyerror(hasComments, resp, t) ==
    IF ~hasComments THEN [raised |-> FALSE, song |-> NoSong]
    ELSE IF resp.kind \in {"api_error", "missing_key"} THEN [raised |-> TRUE, song |-> NoSong]
    ELSE IF resp.kind = "found" THEN [raised |-> FALSE, song |-> NewSong(resp.result, t)]
    ELSE [raised |-> FALSE, song |-> NoSong]

\* extract_solution(post, comments): [raised, song]; hasComments is
\* bool(comments), t the time Song() is constructed
ExtractSolution(hasComments, resp, t) ==
    IF ~hasComments THEN [raised |-> FALSE, song |-> NoSong]
    ELSE IF resp.kind = "api_error" THEN [raised |-> TRUE, song |-> NoSong]
    ELSE IF resp.kind = "found" THEN [raised |-> FALSE, song |-> NewSong(resp.result, t)]
    ELSE [raised |-> FALSE, song |-> NoSong]

\* ------------------------------------------------------------------ store
\* Post(...) as _submission_to_post builds it at time t
SubmissionToPost(id, flair, t) ==
    [id |-> id,
     status |-> StatusOf[flair],
     scraped_at |-> t,
     description |-> None,
     solution_comment_id |-> None,
     solution_text |-> None,
     identified_song_id |-> None]

\* PostRecord.from_model: every column is copied from the model
PostFromModel(post) ==
    [id |-> post.id,
     status |-> post.status,
     scraped_at |-> post.scraped_at,
     description |-> post.description,
     solution_comment_id |-> post.solution_comment_id,
     solution_text |-> post.solution_text,
     identified_song_id |-> post.identified_song_id]

\* variant: an existing row keeps its link and solution columns
SavePost_keepLink(ps, post) ==
    IF post.id \in DOMAIN ps
    THEN [ps EXCEPT ![post.id] =
            [PostFromModel(post) EXCEPT
                !.identified_song_id = ps[post.id].identified_song_id,
                !.solution_comment_id = ps[post.id].solution_comment_id,
                !.solution_text = ps[post.id].solution_text]]
    ELSE ps @@ (post.id :> PostFromModel(post))

\* save_post: an existing row gets every public attribute of the new record
SavePost(ps, post) ==
    IF post.id \in DOMAIN ps
    THEN [ps EXCEPT ![post.id] = PostFromModel(post)]
    ELSE ps @@ (post.id :> PostFromModel(post))

\* variant: every incoming description is appended, present or not
MergeDescriptions_always(descriptions, incoming) == descriptions \o incoming

\* the loop of save_song over song.original_descriptions
RECURSIVE MergeDescriptions(_, _)
MergeDescriptions(descriptions, incoming) ==
    IF incoming = <<>> THEN descriptions
    ELSE MergeDescriptions(
            IF \E i \in 1..Len(descriptions) : descriptions[i] = Head(incoming)
            THEN descriptions
            ELSE Append(descriptions, Head(incoming)),
            Tail(incoming))

\* variant: the existing row also takes the incoming Song's own columns
SaveSongRows_overwrite(ss, song) ==
    IF song.id \in DOMAIN ss
    THEN [ss EXCEPT ![song.id] =
            [song EXCEPT !.discovery_count = ss[song.id].discovery_count + 1,
                         !.original_descriptions =
                             MergeDescriptions(ss[song.id].original_descriptions,
                                               song.original_descriptions)]]
    ELSE ss @@ (song.id :> song)

\* save_song, the songs table as the session will commit it
SaveSongRows(ss, song) ==
    IF song.id \in DOMAIN ss
    THEN [ss EXCEPT ![song.id] =
            [@ EXCEPT !.discovery_count = @ + 1,
                      !.original_descriptions =
                          MergeDescriptions(@, song.original_descriptions)]]
    ELSE ss @@ (song.id :> song)

\* source_post=None
NoPostId == "none"

\* save_song, the link to the source post
SaveSongLink(ps, song, source_post_id) ==
    IF source_post_id # NoPostId /\ source_post_id \in DOMAIN ps
    THEN [ps EXCEPT ![source_post_id].identified_song_id = song.id]
    ELSE ps

\* variant: every statement of the session is visible at once (autocommit)
Uncommitted_dirty(committed, pending) == pending

\* what other sessions see of a session's pending rows before commit()
Uncommitted(committed, pending) == committed

\* get_posts(status=..., limit=...): ids by created_at descending
RECURSIVE NewestFirst(_)
NewestFirst(ids) ==
    IF ids = {} THEN <<>>
    ELSE LET m == CHOOSE x \in ids : \A y \in ids : CreatedAt(y) <= CreatedAt(x)
         IN <<m>> \o NewestFirst(ids \ {m})

\* variant: the status filter is not applied
GetPosts_anyStatus(ps, status, limit) ==
    LET all == NewestFirst(DOMAIN ps)
    IN SubSeq(all, 1, IF Len(all) < limit THEN Len(all) ELSE limit)

GetPosts(ps, status, limit) ==
    LET all == NewestFirst({id \in DOMAIN ps : ps[id].status = status})
    IN SubSeq(all, 1, IF Len(all) < limit THEN Len(all) ELSE limit)

\* variant: nothing is filtered out
Unlinked_all(ps, ids) == ids

\* [p for p in posts if not p.identified_song_id]
RECURSIVE Unlinked(_, _)
Unlinked(ps, ids) ==
    IF ids = <<>> THEN <<>>
    ELSE (IF Truthy(ps[Head(ids)].identified_song_id) THEN <<>> ELSE <<Head(ids)>>)
         \o Unlinked(ps, Tail(ids))

\* variant: the quotient is taken whatever the total
GetStats_unguarded(ps, ss) ==
    LET total == Cardinality(DOMAIN ps)
        solved == Cardinality({id \in DOMAIN ps : ps[id].status = "solved"})
    IN [total_posts |-> total,
        solved_posts |-> solved,
        unsolved_posts |-> total - solved,
        solve_rate |-> <<solved, total>>,
        total_songs |-> Cardinality(DOMAIN ss)]

\* get_stats (solve_rate as the pair solved/total, 0 when total is 0)
GetStats(ps, ss) ==
    LET total == Cardinality(DOMAIN ps)
        solved == Cardinality({id \in DOMAIN ps : ps[id].status = "solved"})
    IN [total_posts |-> total,
        solved_posts |-> solved,
        unsolved_posts |-> total - solved,
        solve_rate |-> IF total > 0 THEN <<solved, total>> ELSE <<0, 1>>,
        total_songs |-> Cardinality(DOMAIN ss)]

\* ------------------------------------------------------------------ state
VARIABLES
    posts,        \* committed posts table: id -> row
    songs,        \* committed songs table: id -> row
    txn,          \* rows a save_song session holds before commit()
    pc,           \* where the service is: idle, scrape, resolve, commit, done, raised
    now,          \* datetime.utcnow(), advanced once per started run
    cyc,          \* the running call and those of its arguments it has read
    subIdx,       \* scrape_*: index of the subreddit being listed
    fetched,      \* scrape_*: submissions the current listing has returned
    seen,         \* threads listed so far in this run
    count,        \* scrape_and_store: count
    selected,     \* process_solved_posts: posts (ids), in store order
    snapshot,     \* process_solved_posts: the Post models read with `selected`
    idx,          \* process_solved_posts: position of the loop in `selected`
    outcomes,     \* what happened to each attempted post of the pass
    songs_found,  \* process_solved_posts: songs_found
    result,       \* value returned (or exception raised) by discover / process_solved_posts
    resolutions,  \* history: per request, the song ids it was linked to, in order
    submission,   \* scrape_*: the submission the listing returned last
    message,      \* parser: the last response of the extraction capability
    comments,     \* process_solved_posts: the reply list of the iteration: none, empty, some
    call,         \* a function applied on its own: name, arguments, value
    sessions      \* save_song calls of other processes on the same database file

vars == <<posts, songs, txn, pc, now, cyc, subIdx, fetched, seen, count,
          selected, snapshot, idx, outcomes, songs_found, result,
          resolutions, submission, message, comments, call, sessions>>

\* the variables of the service and its store
pipeline == <<posts, songs, txn, pc, now, cyc, subIdx, fetched, seen, count,
              selected, snapshot, idx, outcomes, songs_found, result,
              resolutions, submission, message, comments, sessions>>

store == <<posts, songs>>
history == <<resolutions>>
scrapeVars == <<subIdx, fetched, seen, count, submission>>
passVars == <<selected, snapshot, idx, outcomes, songs_found>>

Empty == [x \in {} |-> 0]
NoTxn == [active |-> FALSE]
NoCycle == [kind |-> "none"]
NoOutput == [kind |-> "none"]
NoSubmission == [id |-> "none"]
NoMessage == [prompt |-> "none"]
NoCall == [fn |-> "none"]
NoSession == [pc |-> "none"]

\* two processes that open the same database file (two `tomt process` runs,
\* or a run next to the web service), each with its own engine and sessions
Sessions == {"p1", "p2"}

ValidModes == {"new", "hot", "solved"}
Modes == ValidModes \cup {"top"}

Init ==
    /\ posts = Empty
    /\ songs = Empty
    /\ txn = NoTxn
    /\ pc = "idle"
    /\ now = 0
    /\ cyc = NoCycle
    /\ subIdx = 0
    /\ fetched = 0
    /\ seen = {}
    /\ count = 0
    /\ selected = <<>>
    /\ snapshot = Empty
    /\ idx = 0
    /\ outcomes = <<>>
    /\ songs_found = 0
    /\ result = NoOutput
    /\ resolutions = [t \in PostIds |-> <<>>]
    /\ submission = NoSubmission
    /\ message = NoMessage
    /\ comments = "none"
    /\ call = NoCall
    /\ sessions = [s \in Sessions |-> NoSession]

\* an exception leaving discover / process_solved_posts
Raised(what) == [kind |-> "error", error |-> what]

\* the exception unwinds the call: its locals are gone, the store stays
Unwind(exception) ==
    /\ pc' = "raised"
    /\ result' = exception
    /\ cyc' = NoCycle
    /\ subIdx' = 0
    /\ fetched' = 0
    /\ seen' = {}
    /\ count' = 0
    /\ selected' = <<>>
    /\ snapshot' = Empty
    /\ idx' = 0
    /\ outcomes' = <<>>
    /\ songs_found' = 0
    /\ submission' = NoSubmission
    /\ message' = NoMessage
    /\ comments' = "none"

Raise(what) == Unwind(Raised(what))

\* ---------------------------------------------------------------- discover
\* the parameters of discover, all a caller of the cycle can set
DiscoverArgs == {"scrape_mode", "scrape_limit", "process"}

\* discover(scrape_mode, scrape_limit, process): scrape_and_store is entered
\* with enrich=True; an unknown mode raises ValueError before any listing.
\* `process` is read only after scrape_and_store has returned (ScrapeDone).
Discover(mode, limit) ==
    /\ pc = "idle"
    /\ now < MaxCycles
    /\ now' = now + 1
    /\ IF mode \in ValidModes
       THEN /\ pc' = "scrape"
            /\ cyc' = [kind |-> "discover", mode |-> mode, limit |-> limit,
                       enrich |-> TRUE]
            /\ subIdx' = 1
            /\ result' = NoOutput
            /\ UNCHANGED <<fetched, seen, count, submission, message, comments, passVars>>
       ELSE Raise("ValueError")
    /\ UNCHANGED <<store, txn, history>>

\* position of t's subreddit in self.subreddits
SubIndex(t) == CHOOSE i \in 1..Len(Subreddits) : Subreddits[i] = SubredditOf(t)

\* the generator can return submission t next: from the listing of the
\* current subreddit when it has returned fewer than `limit` submissions, or
\* as the first submission of a later subreddit
CanList(t) ==
    /\ pc = "scrape"
    /\ SubIndex(t) >= subIdx
    /\ SubIndex(t) = subIdx => fetched < cyc.limit /\ t \notin seen

\* the generator's position after the listing returned t showing `flair`
Listed(t, flair) ==
    /\ submission' = [id |-> t, flair |-> flair]
    /\ subIdx' = SubIndex(t)
    /\ fetched' = IF SubIndex(t) = subIdx THEN fetched + 1 ELSE 1
    /\ seen' = IF SubIndex(t) = subIdx THEN seen \cup {t} ELSE {t}

\* a listing call raises inside the generator
ListingFails ==
    /\ pc = "scrape"
    /\ Raise("listing")
    /\ UNCHANGED <<store, txn, now, history>>

\* the listing returns submission t, which _is_music_post rejects
ScrapeDrop(t, flair) ==
    /\ CanList(t)
    /\ <<t, flair>> \notin MusicPosts
    /\ Listed(t, flair)
    /\ UNCHANGED <<store, txn, pc, now, cyc, count, message, comments, passVars, result, history>>

\* the Post a scrape_* generator yields for submission t
ScrapedPost(mode, t, flair, time) ==
    IF mode = "solved"
    THEN [SubmissionToPost(t, flair, time) EXCEPT !.status = "solved"]
    ELSE SubmissionToPost(t, flair, time)

\* one iteration of the loop of scrape_and_store whose enrich_post raises
EnrichRaises(t, flair, resp) ==
    /\ CanList(t)
    /\ <<t, flair>> \in MusicPosts
    /\ cyc.enrich
    /\ DescriptionRaises(resp)
    /\ Unwind([response |-> resp.kind] @@ Raised("extraction"))
    /\ UNCHANGED <<store, txn, now, history>>

\* variant: a Request whose description fell back to the title is not saved
ScrapeStore_skipFallback(t, flair, resp) ==
    /\ CanList(t)
    /\ <<t, flair>> \in MusicPosts
    /\ cyc.enrich => ~DescriptionRaises(resp)
    /\ LET scraped == ScrapedPost(cyc.mode, t, flair, now)
           post == IF cyc.enrich THEN EnrichPost(scraped, TitleOf(t), resp) ELSE scraped
       IN posts' = IF resp.kind = "not_json" THEN posts ELSE SavePost(posts, post)
    /\ count' = count + 1
    /\ message' = [prompt |-> "description"] @@ Unfenced(resp)
    /\ comments' = comments
    /\ Listed(t, flair)
    /\ UNCHANGED <<songs, txn, pc, now, cyc, passVars, result, history>>

\* one iteration of the loop of scrape_and_store: enrich, save_post, count
ScrapeStore(t, flair, resp) ==
    /\ CanList(t)
    /\ <<t, flair>> \in MusicPosts
    /\ cyc.enrich => ~DescriptionRaises(resp)
    /\ LET scraped == ScrapedPost(cyc.mode, t, flair, now)
           post == IF cyc.enrich THEN EnrichPost(scraped, TitleOf(t), resp) ELSE scraped
       IN posts' = SavePost(posts, post)
    /\ count' = count + 1
    /\ message' = [prompt |-> "description"] @@ Unfenced(resp)
    /\ comments' = comments
    /\ Listed(t, flair)
    /\ UNCHANGED <<songs, txn, pc, now, cyc, passVars, result, history>>

\* the first two statements of process_solved_posts
BeginPass(limit) ==
    /\ selected' = Unlinked(posts, GetPosts(posts, "solved", limit))
    /\ snapshot' = LET sel == Unlinked(posts, GetPosts(posts, "solved", limit))
                   IN [id \in {sel[i] : i \in 1..Len(sel)} |-> posts[id]]
    /\ idx' = 1
    /\ outcomes' = <<>>
    /\ songs_found' = 0

\* variant: the statistics are those of the store before any song was saved
DiscoverOutput_noSongs(posts_scraped, found) ==
    [kind |-> "discover", posts_scraped |-> posts_scraped,
     songs_found |-> found, stats |-> GetStats(posts, Empty)]

\* the dict discover returns: get_stats is read here
DiscoverOutput(posts_scraped, found) ==
    [kind |-> "discover", posts_scraped |-> posts_scraped,
     songs_found |-> found, stats |-> GetStats(posts, songs)]

\* variant: process_solved_posts is entered whatever the mode
ScrapeDone_anyMode(process) ==
    /\ pc = "scrape"
    /\ cyc' = [p \in {"process"} |-> process] @@ cyc
    /\ subIdx' = 0
    /\ fetched' = 0
    /\ seen' = {}
    /\ submission' = NoSubmission
    /\ message' = NoMessage
    /\ comments' = "none"
    /\ IF process
       THEN /\ pc' = "resolve"
            /\ BeginPass(cyc.limit)
            /\ result' = result
       ELSE /\ pc' = "done"
            /\ result' = DiscoverOutput(count, 0)
            /\ UNCHANGED passVars
    /\ UNCHANGED <<store, txn, now, count, history>>

\* every listing is exhausted and scrape_and_store returns; discover, called
\* with `process`, enters process_solved_posts or returns its dict
ScrapeDone(process) ==
    /\ pc = "scrape"
    /\ cyc' = [p \in {"process"} |-> process] @@ cyc
    /\ subIdx' = 0
    /\ fetched' = 0
    /\ seen' = {}
    /\ submission' = NoSubmission
    /\ message' = NoMessage
    /\ comments' = "none"
    /\ IF process /\ cyc.mode = "solved"
       THEN /\ pc' = "resolve"
            /\ BeginPass(cyc.limit)
            /\ result' = result
       ELSE /\ pc' = "done"
            /\ result' = DiscoverOutput(count, 0)
            /\ UNCHANGED passVars
    /\ UNCHANGED <<store, txn, now, count, history>>

\* process_solved_posts(limit) called on its own (cli `process`, /api/process)
Process(limit) ==
    /\ pc = "idle"
    /\ now < MaxCycles
    /\ now' = now + 1
    /\ cyc' = [kind |-> "process", mode |-> "none", limit |-> limit,
               enrich |-> FALSE, process |-> TRUE]
    /\ pc' = "resolve"
    /\ BeginPass(limit)
    /\ result' = NoOutput
    /\ UNCHANGED <<store, txn, scrapeVars, message, comments, history>>

\* ------------------------------------------------------ process_solved_posts
InPass == pc = "resolve" /\ idx <= Len(selected)

\* post of the current iteration, as read by get_posts at the start of the pass
CurrentPost == snapshot[selected[idx]]

\* variant: the exception of an iteration leaves the loop
Skip_raise(outcome, msg, replies) ==
    /\ IF outcome = "none"
       THEN /\ outcomes' = Append(outcomes, outcome)
            /\ idx' = idx + 1
            /\ message' = msg
            /\ comments' = replies
            /\ UNCHANGED <<pc, cyc, scrapeVars, selected, snapshot, songs_found, result>>
       ELSE Raise(outcome)
    /\ UNCHANGED <<store, txn, now, history>>

\* variant: the iteration notes its outcome in the Request's row
Skip_marked(outcome, msg, replies) ==
    /\ outcomes' = Append(outcomes, outcome)
    /\ idx' = idx + 1
    /\ message' = msg
    /\ comments' = replies
    /\ posts' = [posts EXCEPT ![selected[idx]].solution_text = <<"n","o","n","e">>]
    /\ UNCHANGED <<songs, txn, pc, now, cyc, scrapeVars, selected, snapshot,
                   songs_found, result, history>>

\* an iteration that ends in `continue` or finds no song
Skip(outcome, msg, replies) ==
    /\ outcomes' = Append(outcomes, outcome)
    /\ idx' = idx + 1
    /\ message' = msg
    /\ comments' = replies
    /\ UNCHANGED <<store, txn, pc, now, cyc, scrapeVars, selected, snapshot,
                   songs_found, result, history>>

\* get_post_with_comments raises: warning, continue
FetchFails ==
    /\ InPass
    /\ Skip("fetch_error", NoMessage, "none")

\* extract_solution raises: warning, continue
ExtractRaises(resp) ==
    /\ InPass
    /\ ExtractSolution(TRUE, resp, now).raised
    /\ Skip("extract_error", [prompt |-> "solution"] @@ resp, "some")

\* extract_solution returns None (no comments, or no usable answer)
NoSolution(hasComments, resp) ==
    /\ InPass
    /\ LET r == ExtractSolution(hasComments, resp, now)
       IN ~r.raised /\ r.song.id = None
    /\ Skip("none",
            IF SolutionCalls(hasComments) THEN [prompt |-> "solution"] @@ resp ELSE NoMessage,
            IF hasComments THEN "some" ELSE "empty")

\* the song handed to save_song: the post's description is appended when truthy
WithDescription(song, post) ==
    IF Truthy(post.description)
    THEN [song EXCEPT !.original_descriptions = Append(@, post.description)]
    ELSE song

\* extract_solution returns a Song; save_song works in its session up to
\* (not including) session.commit()
FoundSong(resp) ==
    /\ InPass
    /\ resp \in SolutionResponsesOf(CurrentPost.id)
    /\ LET r == ExtractSolution(TRUE, resp, now)
       IN /\ ~r.raised
          /\ r.song.id # None
          /\ LET song == WithDescription(r.song, CurrentPost)
                 pending == SaveSongRows(songs, song)
             IN /\ txn' = [active |-> TRUE, song |-> pending[song.id],
                           incoming |-> song, source_post |-> CurrentPost.id]
                /\ songs' = Uncommitted(songs, pending)
    /\ message' = [prompt |-> "solution"] @@ resp
    /\ comments' = "some"
    /\ pc' = "commit"
    /\ UNCHANGED <<posts, now, cyc, scrapeVars, passVars, result, history>>

\* session.commit() of save_song, then songs_found += 1
Commit ==
    /\ pc = "commit"
    /\ songs' = IF txn.song.id \in DOMAIN songs
                THEN [songs EXCEPT ![txn.song.id] = txn.song]
                ELSE songs @@ (txn.song.id :> txn.song)
    /\ posts' = SaveSongLink(posts, txn.song, txn.source_post)
    /\ resolutions' = [resolutions EXCEPT ![txn.source_post] = Append(@, txn.song.id)]
    /\ txn' = NoTxn
    /\ songs_found' = songs_found + 1
    /\ outcomes' = Append(outcomes, "song")
    /\ idx' = idx + 1
    /\ pc' = "resolve"
    /\ UNCHANGED <<now, cyc, scrapeVars, message, comments, selected, snapshot, result>>

\* the loop is over: process_solved_posts returns songs_found, and discover
\* returns its dict
PassDone ==
    /\ pc = "resolve"
    /\ idx > Len(selected)
    /\ pc' = "done"
    /\ result' = IF cyc.kind = "discover"
                 THEN DiscoverOutput(count, songs_found)
                 ELSE [kind |-> "process", songs_found |-> songs_found]
    /\ snapshot' = Empty
    /\ idx' = 0
    /\ message' = NoMessage
    /\ comments' = "none"
    /\ UNCHANGED <<store, txn, now, cyc, scrapeVars, selected, outcomes,
                   songs_found, history>>

\* the caller has the value (or the exception); the service is free again
Return ==
    /\ pc \in {"done", "raised"}
    /\ pc' = "idle"
    /\ cyc' = NoCycle
    /\ subIdx' = 0
    /\ fetched' = 0
    /\ seen' = {}
    /\ count' = 0
    /\ selected' = <<>>
    /\ snapshot' = Empty
    /\ idx' = 0
    /\ outcomes' = <<>>
    /\ songs_found' = 0
    /\ submission' = NoSubmission
    /\ message' = NoMessage
    /\ comments' = "none"
    /\ result' = NoOutput
    /\ UNCHANGED <<store, txn, now, history>>

\* one step of the service
Step ==
    \/ \E mode \in Modes, limit \in 1..MaxLimit : Discover(mode, limit)
    \/ \E limit \in 1..MaxLimit : Process(limit)
    \/ ListingFails
    \/ \E t \in PostIds : \E flair \in FlairsOf(t) : ScrapeDrop(t, flair)
    \/ \E t \in PostIds : \E flair \in FlairsOf(t), resp \in DescResponsesOf(t) :
          EnrichRaises(t, flair, resp)
    \/ \E t \in PostIds : \E flair \in FlairsOf(t), resp \in DescResponsesOf(t) :
          ScrapeStore(t, flair, resp)
    \/ \E process \in BOOLEAN : ScrapeDone(process)
    \/ FetchFails
    \/ \E resp \in SolutionResponses : ExtractRaises(resp)
    \/ \E hasComments \in BOOLEAN, resp \in SolutionResponses : NoSolution(hasComments, resp)
    \/ \E resp \in SolutionResponses : FoundSong(resp)
    \/ Commit
    \/ PassDone
    \/ Return

Next == Step /\ UNCHANGED <<call, sessions>>

Spec == Init /\ [][Next]_vars

\* ------------------------------------------------ functions on their own
\* all character sequences over `chars` of length at most n
Strings(chars, n) == UNION {[1..k -> chars] : k \in 0..n}

RECURSIVE Concat(_)
Concat(ws) == IF ws = <<>> THEN <<>> ELSE Head(ws) \o Concat(Tail(ws))

\* words a moderator may put in a flair
TagWords ==
    {<<"S","o","l","v","e","d">>, <<"a","n","s","w","e","r","e","d">>,
     <<"O","P","E","N">>, <<"s","e","a","r","c","h","i","n","g">>,
     <<"U","n","s","o","l","v","e","d">>, <<"c","l","o","s","e","d">>,
     <<"S","o","n","g">>, <<" ">>}

\* submission.link_flair_text: no flair, or up to MaxWords words
TagTexts == {None} \cup {Concat(ws) : ws \in Strings(TagWords, MaxWords)}

NewOrder == <<"N","e","w"," ","O","r","d","e","r">>
BlueMonday == <<"B","l","u","e"," ","M","o","n","d","a","y">>

\* result["artist"], result["song_title"]
NameChars == {"a", "A", "1", "-", " "}
Names ==
    Strings(NameChars, MaxNameLen)
    \cup {NewOrder, Lower(NewOrder), BlueMonday, Lower(BlueMonday)}

\* posts tables as get_stats reads them: the status column of each row
Statuses == {"solved", "open", "unsolved", "unknown"}
PostTables == UNION {[1..n -> [status : Statuses]] : n \in 0..MaxRequests}
SongTables == {[i \in 1..n |-> [id |-> i]] : n \in 0..MaxSongs}

\* one application per behaviour: the function is given its arguments once
ApplyDetermineStatus(flair) ==
    /\ call = NoCall
    /\ call' = [fn |-> "_determine_status", flair |-> flair,
                value |-> DetermineStatus(flair)]
    /\ UNCHANGED pipeline

ApplySongId(artist, title) ==
    /\ call = NoCall
    /\ call' = [fn |-> "song_id", artist |-> artist, song_title |-> title,
                value |-> SongId(artist, title)]
    /\ UNCHANGED pipeline

ApplyGetStats(ps, ss) ==
    /\ call = NoCall
    /\ call' = [fn |-> "get_stats", posts |-> ps, songs |-> ss,
                value |-> GetStats(ps, ss)]
    /\ UNCHANGED pipeline

FnNext ==
    \/ call = NoCall /\ \E flair \in TagTexts : ApplyDetermineStatus(flair)
    \/ call = NoCall /\ \E artist \in Names, title \in Names : ApplySongId(artist, title)
    \/ call = NoCall /\ \E ps \in PostTables, ss \in SongTables : ApplyGetStats(ps, ss)

FnSpec == Init /\ [][FnNext]_vars

\* ------------------------------------------- save_song from two processes
\* the store the two processes find: both threads saved by a "solved" scrape
\* with their titles as descriptions, unlinked, and the Song "ab_c" absent or
\* present with a count of 1..MaxPrior
SolvedRow(t) ==
    PostFromModel(EnrichPost(ScrapedPost("solved", t, FlairSolved, 0), TitleOf(t),
                             [kind |-> "not_json", fence |-> "none", description |-> None]))

\* the answers that name the one track of t1 and t2
SameSong == {r \in Results : SongIdOf[r] = SongId(<<"A","b">>, <<"C">>)}

PriorSongs(n) ==
    IF n = 0 THEN Empty
    ELSE LET song == NewSong(CHOOSE r \in SameSong : r.artist = <<"A","b">>, 0)
         IN (song.id :> [song EXCEPT !.discovery_count = n])

ConcInit ==
    /\ posts = [t \in {"t1", "t2"} |-> SolvedRow(t)]
    /\ \E n \in 0..MaxPrior : songs = PriorSongs(n)
    /\ txn = NoTxn
    /\ pc = "idle"
    /\ now = 0
    /\ cyc = NoCycle
    /\ subIdx = 0
    /\ fetched = 0
    /\ seen = {}
    /\ count = 0
    /\ selected = <<>>
    /\ snapshot = Empty
    /\ idx = 0
    /\ outcomes = <<>>
    /\ songs_found = 0
    /\ result = NoOutput
    /\ resolutions = [t \in PostIds |-> <<>>]
    /\ submission = NoSubmission
    /\ message = NoMessage
    /\ comments = "none"
    /\ call = NoCall
    /\ sessions = [s \in Sessions |-> [pc |-> "start"]]

\* everything but the store and the sessions
service == <<txn, pc, now, cyc, subIdx, fetched, seen, count, selected, snapshot,
             idx, outcomes, songs_found, result, resolutions, submission,
             message, comments, call>>

\* save_song(song, source_post) of process s up to (not including)
\* session.commit(): session.get reads the row, the count is incremented or
\* the new record added in the session, the post's link is set in the session
SessionGet(s, r, t) ==
    /\ sessions[s].pc = "start"
    /\ LET song == WithDescription(NewSong(r, now), posts[t])
           pending == SaveSongRows(songs, song)
       IN sessions' = [sessions EXCEPT ![s] =
             [pc |-> "pending",
              existing |-> IF song.id \in DOMAIN songs THEN songs[song.id] ELSE NoSong,
              song |-> pending[song.id],
              source_post |-> t]]
    /\ UNCHANGED <<store, service>>

\* session.commit() of process s: the UPDATE writes the values the session
\* computed from the row it read, or the INSERT adds the new row
SessionCommit(s) ==
    /\ sessions[s].pc = "pending"
    /\ sessions[s].existing = NoSong => sessions[s].song.id \notin DOMAIN songs
    /\ songs' = IF sessions[s].song.id \in DOMAIN songs
                THEN [songs EXCEPT ![sessions[s].song.id] = sessions[s].song]
                ELSE songs @@ (sessions[s].song.id :> sessions[s].song)
    /\ posts' = SaveSongLink(posts, sessions[s].song, sessions[s].source_post)
    /\ sessions' = [sessions EXCEPT ![s].pc = "done"]
    /\ UNCHANGED service

\* session.commit() of process s: the INSERT meets the row another process
\* has committed since session.get found none; IntegrityError, rollback
SessionIntegrityError(s) ==
    /\ sessions[s].pc = "pending"
    /\ sessions[s].existing = NoSong
    /\ sessions[s].song.id \in DOMAIN songs
    /\ sessions' = [sessions EXCEPT ![s].pc = "IntegrityError"]
    /\ UNCHANGED <<store, service>>

ConcNext ==
    \/ \E s \in Sessions, t \in {"t1", "t2"} :
          \E r \in ResultsOf(t) \cap SameSong : SessionGet(s, r, t)
    \/ \E s \in Sessions : SessionCommit(s)
    \/ \E s \in Sessions : SessionIntegrityError(s)

ConcSpec == ConcInit /\ [][ConcNext]_vars


\* ================================================================= claims
Range(seq) == {seq[i] : i \in 1..Len(seq)}

IsPrefix(a, b) == Len(a) <= Len(b) /\ \A i \in 1..Len(a) : a[i] = b[i]

NoDuplicates(seq) == \A i, j \in 1..Len(seq) : seq[i] = seq[j] => i = j

\* requests whose identified_song_id is s
LinkedTo(ps, s) == {r \in DOMAIN ps : ps[r].identified_song_id = s}

\* a resolution pass has run to its end in the current run
PassFinished ==
    /\ pc = "done"
    /\ cyc.kind = "process" \/ (cyc.process /\ cyc.mode = "solved")

\* C1 (stated as claimed): in every reachable state each Song's
\* discovery_count equals the number of Requests whose identified_song_id is
\* that Song's id.
C1_CountEqualsLinks ==
    \A s \in DOMAIN songs :
        songs[s].discovery_count = Cardinality(LinkedTo(posts, s))

\* C2 (stated as claimed): right after the commit that leaves exactly two
\* different Requests resolved once each, both to song id s, the store holds
\* Song s with discovery_count 2 and both Requests carry
\* identified_song_id = s.
C2_TwoRequestsOneSong ==
    [][pc = "commit" =>
        \A r1, r2 \in PostIds : \A s \in DOMAIN songs' :
            ( /\ r1 # r2
              /\ resolutions'[r1] = <<s>>
              /\ resolutions'[r2] = <<s>>
              /\ \A r3 \in PostIds \ {r1, r2} : s \notin Range(resolutions'[r3]) )
            => /\ songs'[s].discovery_count = 2
               /\ posts'[r1].identified_song_id = s
               /\ posts'[r2].identified_song_id = s]_vars

\* C3 (stated as claimed): a Song is created with discovery_count 1, and its
\* count changes only by +1 and only when a Request that was never resolved
\* to it before resolves to it.
C3_CountOnlyForNewRequest ==
    [][\A s \in DOMAIN songs' :
          IF s \notin DOMAIN songs
          THEN songs'[s].discovery_count = 1
          ELSE songs'[s].discovery_count # songs[s].discovery_count
               => /\ songs'[s].discovery_count = songs[s].discovery_count + 1
                  /\ pc = "commit"
                  /\ s \notin Range(resolutions[txn.source_post])]_vars

\* C4 (stated as claimed): no failure of the extraction call on one item makes
\* a cycle started with a valid mode end in an exception.
C4_ItemFailureNeverAborts ==
    ~(pc = "raised" /\ result.error = "extraction")

\* C5: a reply fetch or solution extraction that raises for one selected
\* Request never ends the pass; when the pass ends every selected Request has
\* been attempted and songs_found is the number of Requests that gave a song.
C5_FailureSkipsOnlyThatRequest ==
    /\ pc = "raised" => result.error \notin {"fetch_error", "extract_error"}
    /\ PassFinished =>
          /\ Len(outcomes) = Len(selected)
          /\ result.songs_found
                = Cardinality({i \in 1..Len(outcomes) : outcomes[i] = "song"})

\* C5 witness: a finished pass in which a Request failed and a later one gave a song
C5_Witness ==
    /\ PassFinished
    /\ \E i \in 1..Len(outcomes) : \E j \in 1..Len(outcomes) :
          /\ i < j
          /\ outcomes[i] \in {"fetch_error", "extract_error"}
          /\ outcomes[j] = "song"
          /\ result.songs_found = 1

\* C6: in the committed store (all another session can read) a Song appears
\* or changes its discovery_count in exactly the steps in which a Request's
\* identified_song_id becomes that Song's id.
C6_CountAndLinkTogether ==
    [][\A s \in DOMAIN songs' :
          (s \notin DOMAIN songs
             \/ songs'[s].discovery_count # songs[s].discovery_count)
          <=> (\E r \in DOMAIN posts' :
                 /\ posts'[r].identified_song_id = s
                 /\ r \in DOMAIN posts => posts[r].identified_song_id # s)]_vars

\* C6 witness: a committed upsert that incremented a Song and linked a Request
C6_Witness ==
    /\ pc = "resolve"
    /\ \E s \in DOMAIN songs :
          /\ songs[s].discovery_count >= 2
          /\ idx > 1
          /\ outcomes[idx - 1] = "song"
          /\ posts[selected[idx - 1]].identified_song_id = s

\* C7 (stated as claimed): no step changes the scraped_at of a stored Request.
C7_ScrapedAtPreserved ==
    [][\A id \in DOMAIN posts :
          id \in DOMAIN posts' /\ posts'[id].scraped_at = posts[id].scraped_at]_vars

\* C8: no step changes title, artist, album, year or discovered_at of a
\* stored Song, whatever the incoming Song carries.
C8_FirstSeenValuesWin ==
    [][\A s \in DOMAIN songs :
          /\ s \in DOMAIN songs'
          /\ songs'[s].title = songs[s].title
          /\ songs'[s].artist = songs[s].artist
          /\ songs'[s].album = songs[s].album
          /\ songs'[s].year = songs[s].year
          /\ songs'[s].discovered_at = songs[s].discovered_at]_vars

\* C8 witness: save_song has merged into an existing Song an incoming Song
\* whose title, artist, album, year and discovered_at all differ from it
C8_Witness ==
    /\ pc = "commit"
    /\ txn.song.id \in DOMAIN songs
    /\ txn.incoming.title # songs[txn.song.id].title
    /\ txn.incoming.artist # songs[txn.song.id].artist
    /\ txn.incoming.album # songs[txn.song.id].album
    /\ txn.incoming.year # songs[txn.song.id].year
    /\ txn.incoming.discovered_at # songs[txn.song.id].discovered_at
    /\ txn.song.discovery_count = songs[txn.song.id].discovery_count + 1

\* the description of the Request whose save_song is being committed
CommittingDescription == snapshot[txn.source_post].description

\* original_descriptions is append-only and duplicate-free, and a commit into
\* an existing Song appends the Request's description exactly when
\* appendable(description) holds and it is not yet present
DescriptionsRule(appendable(_)) ==
    \A s \in DOMAIN songs :
        LET old == songs[s].original_descriptions
            new == songs'[s].original_descriptions
        IN /\ s \in DOMAIN songs'
           /\ IsPrefix(old, new)
           /\ NoDuplicates(new)
           /\ (pc = "commit" /\ txn.song.id = s) =>
                 new = IF appendable(CommittingDescription)
                          /\ CommittingDescription \notin Range(old)
                       THEN Append(old, CommittingDescription)
                       ELSE old

NonNull(d) == d # None

\* C9 (stated as claimed): the Request's description is appended exactly when
\* it is non-null and not already present.
C9_AppendWhenNonNull == [][DescriptionsRule(NonNull)]_vars

\* C9 (amended): the Request's description is appended exactly when it is
\* non-null, non-empty and not already present; entries are never lost,
\* reordered or repeated.
C9_AppendWhenNonEmpty == [][DescriptionsRule(Truthy)]_vars

\* C9 witness: a Song with two descriptions to which a further resolution
\* added none
C9_Witness ==
    \E s \in DOMAIN songs :
        /\ Len(songs[s].original_descriptions) = 2
        /\ songs[s].discovery_count > 2

\* C10: a Request's identified_song_id is set only in a step that starts with
\* that Request stored with status SOLVED.
C10_LinkOnlyWhenSolved ==
    [][\A r \in DOMAIN posts' :
          ( /\ posts'[r].identified_song_id # None
            /\ r \in DOMAIN posts => posts[r].identified_song_id # posts'[r].identified_song_id )
          => r \in DOMAIN posts /\ posts[r].status = "solved"]_vars

\* C10 witness: a pass has linked a Request while an unlinked Request with
\* another status is in the store
C10_Witness ==
    /\ pc = "resolve"
    /\ songs_found >= 1
    /\ \E r \in DOMAIN posts :
          posts[r].status # "solved" /\ posts[r].identified_song_id = None

\* a step of the loop of scrape_and_store that saved the submission just listed
StoredStep == pc = "scrape" /\ count' = count + 1

\* C11 (stated as claimed): whatever the mode, the status a cycle persists for
\* a Request is the status rule applied to the flair the thread shows.
C11_StatusFromTagAlone ==
    [][StoredStep =>
          posts'[submission'.id].status = StatusOf[submission'.flair]]_vars

\* `word` occurs in the case-folded flair text (no flair: the empty text)
TagHas(word, flair) == flair # None /\ Contains(word, Lower(flair))

\* C12: _determine_status gives SOLVED when the case-folded flair contains
\* "solved" or "answered"; else OPEN when it contains "open" or "searching";
\* else UNSOLVED when it contains "unsolved" or "closed"; else UNKNOWN.
C12_FirstMatchingRule ==
    call.fn = "_determine_status" =>
        LET solved == TagHas(<<"s","o","l","v","e","d">>, call.flair)
                      \/ TagHas(<<"a","n","s","w","e","r","e","d">>, call.flair)
            open == TagHas(<<"o","p","e","n">>, call.flair)
                    \/ TagHas(<<"s","e","a","r","c","h","i","n","g">>, call.flair)
            unsolved == TagHas(<<"u","n","s","o","l","v","e","d">>, call.flair)
                        \/ TagHas(<<"c","l","o","s","e","d">>, call.flair)
        IN /\ solved => call.value = "solved"
           /\ ~solved /\ open => call.value = "open"
           /\ ~solved /\ ~open /\ unsolved => call.value = "unsolved"
           /\ ~solved /\ ~open /\ ~unsolved => call.value = "unknown"

\* C12 witness: a flair with both "solved" and "open" in it was given SOLVED
C12_Witness ==
    /\ call.fn = "_determine_status"
    /\ TagHas(<<"s","o","l","v","e","d">>, call.flair)
    /\ TagHas(<<"o","p","e","n">>, call.flair)
    /\ ~TagHas(<<"u","n","s","o","l","v","e","d">>, call.flair)
    /\ call.value = "solved"

\* C13: a description response whose payload is not JSON, fenced or not, never
\* makes the cycle raise, and the Request is stored with its own title as its
\* description.
C13_TitleIsTheFallback ==
    [][/\ \A resp \in DescResponses :
             resp.kind = "not_json" =>
                 /\ ~DescriptionRaises(resp)
                 /\ \A t \in PostIds : ExtractDescription(TitleOf(t), resp) = TitleOf(t)
       /\ (StoredStep /\ message'.kind = "not_json") =>
             posts'[submission'.id].description = TitleOf(submission'.id)
       /\ (pc' = "raised" /\ result'.error = "extraction") =>
             result'.response # "not_json"]_vars

\* C13 witness: a Request was just stored after a non-JSON response, with its
\* title as description
C13_Witness ==
    /\ pc = "scrape"
    /\ message = [prompt |-> "description", kind |-> "not_json", description |-> None]
    /\ submission.id \in DOMAIN posts
    /\ posts[submission.id].scraped_at = now
    /\ posts[submission.id].description = TitleOf(submission.id)

\* an iteration of the pass that got a solution response of kind k
SolutionStep(k) ==
    /\ pc = "resolve"
    /\ Len(outcomes') = Len(outcomes) + 1
    /\ message'.prompt = "solution"
    /\ message'.kind = k

\* C14: a solution response that is not JSON, or that says found without
\* artist or song_title, ends the iteration with no result and no exception:
\* no Song is created or changed and no Request is linked.
C14_NoResultFromBadResponse ==
    [][\A k \in {"not_json", "missing_key"} :
          SolutionStep(k) =>
              /\ outcomes'[Len(outcomes')] = "none"
              /\ pc' = "resolve"
              /\ songs' = songs
              /\ posts' = posts
              /\ songs_found' = songs_found]_vars

\* C14 witness: the pass has just passed over a Request whose solution
\* response lacked a required key, and the Request is still unlinked
C14_Witness ==
    /\ pc = "resolve"
    /\ idx > 1
    /\ message.prompt = "solution"
    /\ message.kind = "missing_key"
    /\ outcomes[idx - 1] = "none"
    /\ posts[selected[idx - 1]].identified_song_id = None

\* what the id rule makes of one character
IdChar(c) == IF IsAlnum(c) THEN LowerChar(c) ELSE "_"

\* x and y differ only in letter case, or in which non-alphanumeric character
\* stands at a position
SameShape(x, y) ==
    /\ Len(x) = Len(y)
    /\ \A i \in 1..Len(x) :
          IF IsAlnum(x[i]) THEN IsAlnum(y[i]) /\ LowerChar(x[i]) = LowerChar(y[i])
          ELSE ~IsAlnum(y[i])

\* the songs table after save_song of two Songs with the given ids
TwoSaves(id1, id2) ==
    LET row(id) == [id |-> id, discovery_count |-> 1, original_descriptions |-> <<>>]
    IN SaveSongRows(SaveSongRows(Empty, row(id1)), row(id2))

\* C15: the Song id is artist, "_" and song_title, each character lower-cased
\* when alphanumeric and replaced by "_" otherwise; results that differ only
\* in case or in their non-alphanumeric characters get the same id and end as
\* one Song row with discovery_count 2.
C15_SongIdNormalised ==
    call.fn = "song_id" =>
        LET a == call.artist
            t == call.song_title
        IN /\ Len(call.value) = Len(a) + 1 + Len(t)
           /\ \A i \in 1..Len(a) : call.value[i] = IdChar(a[i])
           /\ call.value[Len(a) + 1] = "_"
           /\ \A i \in 1..Len(t) : call.value[Len(a) + 1 + i] = IdChar(t[i])
           /\ \A a2 \in Names :
                 SameShape(a, a2) =>
                     /\ SongId(a2, t) = call.value
                     /\ DOMAIN TwoSaves(call.value, SongId(a2, t)) = {call.value}
                     /\ TwoSaves(call.value, SongId(a2, t))[call.value].discovery_count = 2
           /\ \A t2 \in Names :
                 SameShape(t, t2) => SongId(a, t2) = call.value

\* C15 witness: artist "New Order", title "Blue Monday"
C15_Witness ==
    /\ call.fn = "song_id"
    /\ call.artist = NewOrder
    /\ call.song_title = BlueMonday
    /\ call.value = <<"n","e","w","_","o","r","d","e","r","_",
                      "b","l","u","e","_","m","o","n","d","a","y">>

\* C16: get_stats reports the number of rows, the number of SOLVED rows, their
\* difference (never negative), the number of songs, and as solve rate
\* solved / total, which is 0 with a denominator that is not 0 when there is
\* no row.
C16_Stats ==
    call.fn = "get_stats" =>
        LET total == Len(call.posts)
            solved == Cardinality({i \in 1..total : call.posts[i].status = "solved"})
            rate == call.value.solve_rate
        IN /\ call.value.total_posts = total
           /\ call.value.solved_posts = solved
           /\ call.value.unsolved_posts = total - solved
           /\ call.value.unsolved_posts >= 0
           /\ call.value.total_songs = Len(call.songs)
           /\ rate[2] # 0
           /\ rate[1] * total = solved * rate[2]
           /\ total = 0 => rate[1] = 0

\* C16 witness: 3 Requests of which 1 is SOLVED, rate 1/3
C16_Witness ==
    /\ call.fn = "get_stats"
    /\ Len(call.posts) = 3
    /\ call.value.solved_posts = 1
    /\ call.value.solve_rate = <<1, 3>>

\* a step in which the listing returned a submission and nothing raised
ListingStep ==
    /\ pc = "scrape"
    /\ pc' = "scrape"
    /\ <<subIdx', fetched'>> # <<subIdx, fetched>>

\* C17: a thread of a music-dedicated subreddit is always stored and counted;
\* a thread of r/tipofmytongue is stored and counted exactly when its flair
\* has "song" or "music" in it or its title matches a music pattern; any other
\* is passed over without a store change, a count or an exception.
C17_RelevanceFilter ==
    [][ListingStep =>
          LET t == submission'.id
              f == submission'.flair
              kept == /\ count' = count + 1
                      /\ t \in DOMAIN posts'
                      /\ posts'[t].scraped_at = now
              dropped == count' = count /\ posts' = posts
              indicated == \/ TagHas(<<"s","o","n","g">>, f)
                           \/ TagHas(<<"m","u","s","i","c">>, f)
                           \/ MatchesMusicPattern(TitleOf(t))
          IN /\ kept \/ dropped
             /\ SubredditOf(t) \in {"WhatsThisSong", "NameThatSong"} => kept
             /\ SubredditOf(t) = "tipofmytongue" => (kept <=> indicated)]_vars

\* C17 witness: in one cycle "[TOMT] [Song]" was stored and "[TOMT][Movie]"
\* was then passed over
C17_Witness ==
    /\ pc = "scrape"
    /\ submission.id = "t3"
    /\ count = 1
    /\ "t3" \notin DOMAIN posts
    /\ "t2" \in DOMAIN posts
    /\ posts["t2"].scraped_at = now

\* C18 (stated as claimed): songs_found grows by exactly the number of Song
\* rows the commit adds to the songs table.
C18_SongsFoundAreNewSongs ==
    [][pc = "commit" =>
          songs_found' - songs_found
            = Cardinality(DOMAIN songs') - Cardinality(DOMAIN songs)]_vars

\* the step has an effect only the Resolve stage has: a reply fetch, a
\* solution extraction, a Song created or changed, a Request linked
ResolveEffect ==
    \/ songs' # songs
    \/ Len(outcomes') > Len(outcomes)
    \/ pc' = "commit"
    \/ \E r \in DOMAIN posts' :
          /\ posts'[r].identified_song_id # None
          /\ r \in DOMAIN posts => posts[r].identified_song_id # posts'[r].identified_song_id

\* C19: within discover, only a cycle of mode "solved" called with process
\* makes a reply fetch or a solution extraction, creates or changes a Song or
\* links a Request; every other cycle returns songs_found = 0.
C19_ResolveOnlyWhenSolvedAndProcess ==
    [][/\ (cyc.kind = "discover" /\ ResolveEffect) =>
             /\ pc \in {"resolve", "commit"}
             /\ cyc.mode = "solved"
             /\ cyc.process
       /\ ( /\ pc' = "done"
            /\ cyc'.kind = "discover"
            /\ ~(cyc'.mode = "solved" /\ cyc'.process) ) =>
             result'.songs_found = 0]_vars

\* C19 witness: a cycle of mode "new" called with process has returned while
\* a SOLVED Request without a link is in the store
C19_Witness ==
    /\ pc = "done"
    /\ cyc.kind = "discover"
    /\ cyc.mode = "new"
    /\ cyc.process
    /\ result.songs_found = 0
    /\ \E r \in DOMAIN posts :
          posts[r].status = "solved" /\ posts[r].identified_song_id = None

\* C20 (stated as claimed): a cycle never persists more Requests than its
\* limit.
C20_BatchBoundedByLimit ==
    cyc.kind = "discover" => count <= cyc.limit

\* C21 (stated as claimed): description extraction is invoked for a Request
\* only when the caller of the cycle set the enrich flag, so enrich is one of
\* the arguments a caller of discover can pass.
C21_EnrichIsCallerControlled ==
    (cyc.kind = "discover" /\ message.prompt = "description") =>
        "enrich" \in DiscoverArgs

\* SOLVED Requests of the store that have no linked Song
UnlinkedSolved(ps) ==
    {r \in DOMAIN ps : ps[r].status = "solved" /\ ps[r].identified_song_id = None}

Min(a, b) == IF a <= b THEN a ELSE b

\* the step enters a resolution pass
PassBegins == pc \in {"idle", "scrape"} /\ pc' = "resolve"

\* C22 (stated as claimed): a pass with k unlinked SOLVED Requests available
\* attempts min(k, limit) of them.
C22_PassTakesMinOfUnlinkedAndLimit ==
    [][PassBegins =>
          Len(selected') = Min(Cardinality(UnlinkedSolved(posts)), cyc'.limit)]_vars

\* position of the pass: grows with every step the pass takes
PassMeasure == 2 * idx + (IF pc = "commit" THEN 1 ELSE 0)

\* a step taken inside a resolution pass
PassStep == pc \in {"resolve", "commit"} /\ pc' \in {"resolve", "commit"}

\* C23: every Request a pass attempts was SOLVED and unlinked when the pass
\* selected it; the pass attempts the selected Requests one at a time in the
\* order the store returned them, each once, at most `limit` of them, and every
\* step of the pass moves it towards its end, where all of them are attempted.
C23_PassAttemptsSelectionOnce ==
    /\ [](pc \in {"resolve", "commit", "done"} /\ cyc.kind # "none" /\ selected # <<>> =>
            /\ Len(selected) <= cyc.limit
            /\ NoDuplicates(selected)
            /\ \A i, j \in 1..Len(selected) :
                  i < j => CreatedAt(selected[i]) > CreatedAt(selected[j])
            /\ pc # "done" =>
                  /\ \A i \in 1..Len(selected) :
                        /\ snapshot[selected[i]].status = "solved"
                        /\ snapshot[selected[i]].identified_song_id = None
                  /\ Len(outcomes) = idx - 1
                  /\ idx <= Len(selected) + 1
                  /\ pc = "commit" =>
                        idx <= Len(selected) /\ txn.source_post = selected[idx]
            /\ pc = "done" => Len(outcomes) = Len(selected))
    /\ [][/\ PassBegins =>
                \A i \in 1..Len(selected') :
                    /\ posts[selected'[i]].status = "solved"
                    /\ posts[selected'[i]].identified_song_id = None
          /\ PassStep =>
                /\ PassMeasure' > PassMeasure
                /\ PassMeasure' <= 2 * (Len(selected) + 1)
                /\ selected' = selected
                /\ IsPrefix(outcomes, outcomes')]_vars

\* C23 witness: a pass with limit 2 has attempted its two Requests, the newer
\* first, and returned
C23_Witness ==
    /\ pc = "done"
    /\ cyc.kind = "process"
    /\ cyc.limit = 2
    /\ Len(selected) = 2
    /\ Len(outcomes) = 2
    /\ \E s \in DOMAIN songs : songs[s].discovery_count >= 1

\* the step ends an iteration of the pass with outcome o
Attempted(o) ==
    /\ pc = "resolve"
    /\ Len(outcomes') = Len(outcomes) + 1
    /\ outcomes'[Len(outcomes')] = o

\* r would be selected by a pass whose limit covers the whole store
Eligible(ps, r) ==
    r \in Range(Unlinked(ps, GetPosts(ps, "solved", Cardinality(DOMAIN ps))))

\* C24: an iteration of the pass whose reply fetch fails, whose solution
\* extraction fails or returns no result changes no stored field of its
\* Request and no Song; the pass goes to its next Request, never back to this
\* one, and the Request is SOLVED and unlinked in the store, where a later
\* pass selects it.
C24_FailedAttemptChangesNothing ==
    [][\A o \in {"fetch_error", "extract_error", "none"} :
          Attempted(o) =>
              /\ posts' = posts
              /\ songs' = songs
              /\ songs_found' = songs_found
              /\ selected' = selected
              /\ NoDuplicates(selected)
              /\ idx' = idx + 1
              /\ pc' = "resolve"
              /\ posts'[selected[idx]].status = "solved"
              /\ posts'[selected[idx]].identified_song_id = None
              /\ Eligible(posts', selected[idx])]_vars

\* C24 witness: with a Song in the store, the pass has just passed over a
\* Request whose solution extraction raised, and the Request is still SOLVED
\* and unlinked
C24_Witness ==
    /\ pc = "resolve"
    /\ idx > 1
    /\ outcomes[Len(outcomes)] = "extract_error"
    /\ songs # Empty
    /\ selected[idx - 1] \in UnlinkedSolved(posts)

\* C25: extract_solution given an empty reply list returns no result without
\* raising, whatever the capability would answer, and the iteration that
\* gets the empty list makes no call to the capability, links no Request and
\* creates or changes no Song.
C25_EmptyRepliesNoCall ==
    [][/\ \A resp \in SolutionResponses :
             ExtractSolution(FALSE, resp, now) = [raised |-> FALSE, song |-> NoSong]
       /\ (pc = "resolve" /\ Len(outcomes') > Len(outcomes) /\ comments' = "empty") =>
             /\ message' = NoMessage
             /\ outcomes'[Len(outcomes')] = "none"
             /\ songs' = songs
             /\ posts' = posts
             /\ posts'[selected[idx]].identified_song_id = None]_vars

\* C25 witness: the pass has just passed over a Request whose thread had no
\* reply
C25_Witness ==
    /\ pc = "resolve"
    /\ idx > 1
    /\ comments = "empty"
    /\ outcomes[Len(outcomes)] = "none"
    /\ posts[selected[idx - 1]].identified_song_id = None

\* C26: in a discover cycle the Requests are saved while no reply has been
\* fetched and no Song saved, nothing of the Resolve stage happens before
\* scrape_and_store has returned, no Request is scraped once the pass has begun,
\* and the statistics of the returned dict are those of the store as the
\* cycle returns.
C26_PersistBeforeResolveStatsLast ==
    /\ [](pc = "done" /\ cyc.kind = "discover" =>
             /\ result.stats = GetStats(posts, songs)
             /\ result.stats.total_posts = Cardinality(DOMAIN posts)
             /\ result.stats.solved_posts
                  = Cardinality({r \in DOMAIN posts : posts[r].status = "solved"})
             /\ result.stats.total_songs = Cardinality(DOMAIN songs))
    /\ [][cyc.kind = "discover" =>
             /\ StoredStep =>
                   /\ outcomes = <<>>
                   /\ songs_found = 0
                   /\ ~txn.active
                   /\ songs' = songs
             /\ ResolveEffect => pc \in {"resolve", "commit"}
             /\ pc \in {"resolve", "commit"} =>
                   /\ count' = count
                   /\ DOMAIN posts' = DOMAIN posts
                   /\ \A r \in DOMAIN posts :
                         /\ posts'[r].scraped_at = posts[r].scraped_at
                         /\ posts'[r].status = posts[r].status
                         /\ posts'[r].description = posts[r].description]_vars

\* C26 witness: a discover cycle that saved two Requests and then one Song has
\* returned
C26_Witness ==
    /\ pc = "done"
    /\ cyc.kind = "discover"
    /\ result.posts_scraped = 2
    /\ result.songs_found = 1
    /\ result.stats.total_posts = 2
    /\ result.stats.total_songs = 1

\* Requests of the store saved by the current cycle
SavedNow == {r \in DOMAIN posts : posts[r].scraped_at = now}

\* C27: in a discover cycle the count of scrape_and_store is the number of
\* Requests the cycle has put in the store, parsed description or title, and
\* it is the posts_scraped the cycle returns.
C27_CountIsSavedRequests ==
    cyc.kind = "discover" =>
        /\ count = Cardinality(SavedNow)
        /\ count <= Cardinality(DOMAIN posts)
        /\ pc = "done" => result.posts_scraped = Cardinality(SavedNow)

\* C27 witness: a cycle has returned 2 after saving one Request with the
\* parsed description and one whose description fell back to the title
C27_Witness ==
    /\ pc = "done"
    /\ cyc.kind = "discover"
    /\ result.posts_scraped = 2
    /\ posts["t1"].scraped_at = now
    /\ posts["t1"].description = D1
    /\ posts["t2"].scraped_at = now
    /\ posts["t2"].description = TitleOf("t2")

\* both processes have left save_song
BothLeft == \A s \in Sessions : sessions[s].pc \in {"done", "IntegrityError"}

\* the discovery_count session.get of process s found (0: no row)
CountRead(s) ==
    IF sessions[s].existing = NoSong THEN 0 ELSE sessions[s].existing.discovery_count

\* C28 (stated as claimed): when two processes have saved the same Song
\* through their own sessions, the store has one Song of that id whose
\* discovery_count is the value before either save plus 2 (2 when the Song
\* did not exist).
C28_NoIncrementLost ==
    BothLeft =>
        \E id \in DOMAIN songs :
            /\ DOMAIN songs = {id}
            /\ \A s \in Sessions : sessions[s].song.id = id
            /\ songs[id].discovery_count
                 = Min(CountRead("p1"), CountRead("p2")) + 2

\* the step saves again, from a scrape, a Request the store already has
Resaved(r) == StoredStep /\ submission'.id = r /\ r \in DOMAIN posts

\* C29: with one run at a time, a Request of the store that has an
\* identified_song_id has status SOLVED, and every save of a Request by a
\* scrape leaves it without identified_song_id, solution_comment_id and
\* solution_text, whatever it had.
C29_LinkedImpliesSolved ==
    /\ [](\A r \in DOMAIN posts :
             posts[r].identified_song_id # None => posts[r].status = "solved")
    /\ [][\A r \in PostIds :
             Resaved(r) =>
                 /\ posts'[r].identified_song_id = None
                 /\ posts'[r].solution_comment_id = None
                 /\ posts'[r].solution_text = None]_vars

\* C29 witness: a Request that was linked to a Song has been scraped again
\* with a "Closed" flair: it is UNSOLVED and has no link
C29_Witness ==
    \E r \in DOMAIN posts :
        /\ resolutions[r] # <<>>
        /\ posts[r].status = "unsolved"
        /\ posts[r].identified_song_id = None
        /\ posts[r].scraped_at = now
        /\ pc = "scrape"

\* C30: _determine_status returns UNSOLVED exactly for the tags that contain
\* "closed" and none of "solved", "answered", "open", "searching", and SOLVED
\* for every tag that contains "unsolved".
C30_UnsolvedOnlyFromClosed ==
    call.fn = "_determine_status" =>
        /\ call.value = "unsolved" <=>
              /\ TagHas(<<"c","l","o","s","e","d">>, call.flair)
              /\ ~TagHas(<<"s","o","l","v","e","d">>, call.flair)
              /\ ~TagHas(<<"a","n","s","w","e","r","e","d">>, call.flair)
              /\ ~TagHas(<<"o","p","e","n">>, call.flair)
              /\ ~TagHas(<<"s","e","a","r","c","h","i","n","g">>, call.flair)
        /\ TagHas(<<"u","n","s","o","l","v","e","d">>, call.flair) =>
              call.value = "solved"

\* C30 witness: the tag "Unsolvedclosed" has been classified SOLVED
C30_Witness ==
    /\ call.fn = "_determine_status"
    /\ call.flair = <<"U","n","s","o","l","v","e","d","c","l","o","s","e","d">>
    /\ call.value = "solved"

====
